---------------------------- MODULE Spec2Model ----------------------------
(***************************************************************************)
(* PAFER trading system: the indicator engine (core/strategy/indicators),  *)
(* the resonance signal engine (core/strategy/paferr_strategy), the        *)
(* virtual trade simulator (core/exchange/huobi_executor) and the          *)
(* parameter optimizer (utils/optimization).                               *)
(*                                                                         *)
(* Number representation.  The program computes in float64; TLC has only   *)
(* integers, so every quantity is carried in fixed point:                  *)
(*   prices, stop_loss, take_profit ......... cents        (1/100)         *)
(*   EMA / MACD / moving-average values ..... 1/10000 of a price unit      *)
(*   RSV and K of the KDJ ................... 1/100 of a percent point     *)
(*   balances, pnl, fee ..................... 1/10000000 USDT, one digit   *)
(*                                             below round(x, 6)           *)
(*   slippage and relative distances ........ 1/100000                     *)
(*   scores .................................. 1/1000                      *)
(*   bar timestamps .......................... minutes since midnight of   *)
(*                                             the first day               *)
(* Every division rounds toward minus infinity.  NaN ("no value", pandas'  *)
(* warm-up result) is a reserved integer no quantity reaches; it compares  *)
(* false, as in IEEE.  -inf is a reserved integer below every score.       *)
(***************************************************************************)
EXTENDS Integers, Sequences, FiniteSets, TLC

NaN == 0 - 1073741824
NegInf == 0 - 2000000000
Abs(x) == IF x < 0 THEN -x ELSE x
Min2(a, b) == IF a < b THEN a ELSE b
Max2(a, b) == IF a > b THEN a ELSE b
\* float comparisons: any comparison with NaN is false
Gt(a, b) == a # NaN /\ b # NaN /\ a > b
Lt(a, b) == a # NaN /\ b # NaN /\ a < b

(***************************************************************************)
(* Bar sequences.  A series is a closed formula for the close of bar i     *)
(* (i from 0, as in the generators of the test fixture and of the          *)
(* objective: open = close-1, high = close+2, low = close-2, one bar every *)
(* 15 minutes).                                                            *)
(***************************************************************************)
BarMinutes == 15

Shapes == {"ramp", "saw", "kick"}

\* "ramp" is np.linspace(3000, 3200, 100) continued; "saw" and "kick" are
\* two realisations of the objective's random walk around 3000.
ShapeClose(s, i) ==
    CASE s = "ramp" -> 300000 + (20000 * i) \div 99
      [] s = "saw"  -> 300000 + 100 * i + 600 * (i % 5)
      [] s = "kick" -> 300000 + 100 * i + (IF i % 4 = 3 THEN 800 ELSE 0)

MakeBar(s, i, off) ==
    [ts    |-> off + BarMinutes * i,
     high  |-> ShapeClose(s, i) + 200,
     low   |-> ShapeClose(s, i) - 200,
     close |-> ShapeClose(s, i)]

\* the first n bars of series s, the first one stamped `off` minutes
Bars(s, n, off) == [i \in 1..n |-> MakeBar(s, i - 1, off)]

(***************************************************************************)
(* indicators.py                                                           *)
(***************************************************************************)
\* Every series below is built left to right by a ...Range operator that
\* splits its index range in halves and reads the length of what is built
\* so far before it goes on (the evaluator's stack is bounded; the result
\* is that of the plain loop for i = lo..hi).
\*
\* Series.ewm(span, adjust=False).mean(): y0 = x0, y = (1-a)*y + a*x with
\* a = 2/(span+1).  Leading NaN inputs give NaN outputs and the first
\* number seeds the average.
EwmStep(prev, x, span) ==
    IF x = NaN THEN prev
    ELSE IF prev = NaN THEN x
    ELSE prev + (2 * (x - prev)) \div (span + 1)

RECURSIVE EwmRange(_, _, _, _, _)
EwmRange(xs, span, lo, hi, acc) ==
    IF lo > hi \/ Len(acc) < lo - 1 THEN acc
    ELSE IF lo = hi
    THEN Append(acc, EwmStep(IF lo = 1 THEN NaN ELSE acc[lo - 1], xs[lo], span))
    ELSE EwmRange(xs, span, (lo + hi) \div 2 + 1, hi,
                  EwmRange(xs, span, lo, (lo + hi) \div 2, acc))

Ewm(xs, span) == EwmRange(xs, span, 1, Len(xs), << >>)

\* rolling(window).min() / .max() / .mean(): NaN until the window is full
RECURSIVE FoldMin(_, _, _)
FoldMin(xs, lo, hi) ==
    IF lo = hi THEN xs[lo] ELSE Min2(xs[lo], FoldMin(xs, lo + 1, hi))
RECURSIVE FoldMax(_, _, _)
FoldMax(xs, lo, hi) ==
    IF lo = hi THEN xs[lo] ELSE Max2(xs[lo], FoldMax(xs, lo + 1, hi))
RECURSIVE FoldSum(_, _, _)
FoldSum(xs, lo, hi) ==
    IF lo > hi THEN 0 ELSE xs[lo] + FoldSum(xs, lo + 1, hi)

RECURSIVE RollingMinRange(_, _, _, _, _)
RollingMinRange(xs, w, lo, hi, acc) ==
    IF lo > hi \/ Len(acc) < lo - 1 THEN acc
    ELSE IF lo = hi
    THEN Append(acc, IF lo < w THEN NaN ELSE FoldMin(xs, lo - w + 1, lo))
    ELSE RollingMinRange(xs, w, (lo + hi) \div 2 + 1, hi,
                         RollingMinRange(xs, w, lo, (lo + hi) \div 2, acc))
RollingMin(xs, w) == RollingMinRange(xs, w, 1, Len(xs), << >>)

RECURSIVE RollingMaxRange(_, _, _, _, _)
RollingMaxRange(xs, w, lo, hi, acc) ==
    IF lo > hi \/ Len(acc) < lo - 1 THEN acc
    ELSE IF lo = hi
    THEN Append(acc, IF lo < w THEN NaN ELSE FoldMax(xs, lo - w + 1, lo))
    ELSE RollingMaxRange(xs, w, (lo + hi) \div 2 + 1, hi,
                         RollingMaxRange(xs, w, lo, (lo + hi) \div 2, acc))
RollingMax(xs, w) == RollingMaxRange(xs, w, 1, Len(xs), << >>)

\* rolling(w).sum(), kept as a running sum: add the entering element, drop
\* the leaving one
RECURSIVE RollingSumRange(_, _, _, _, _)
RollingSumRange(xs, w, lo, hi, acc) ==
    IF lo > hi \/ Len(acc) < lo - 1 THEN acc
    ELSE IF lo = hi
    THEN Append(acc, (IF lo = 1 THEN 0 ELSE acc[lo - 1]) + xs[lo]
                     - (IF lo > w THEN xs[lo - w] ELSE 0))
    ELSE RollingSumRange(xs, w, (lo + hi) \div 2 + 1, hi,
                         RollingSumRange(xs, w, lo, (lo + hi) \div 2, acc))

\* mean of closes in cents, returned in 1/10000
RECURSIVE RollingMeanRange(_, _, _, _, _)
RollingMeanRange(sums, w, lo, hi, acc) ==
    IF lo > hi \/ Len(acc) < lo - 1 THEN acc
    ELSE IF lo = hi
    THEN Append(acc, IF lo < w THEN NaN ELSE (100 * sums[lo]) \div w)
    ELSE RollingMeanRange(sums, w, (lo + hi) \div 2 + 1, hi,
                          RollingMeanRange(sums, w, lo, (lo + hi) \div 2, acc))
RollingMean(xs, w) ==
    RollingMeanRange(RollingSumRange(xs, w, 1, Len(xs), << >>), w,
                     1, Len(xs), << >>)

\* element-wise a - b of two series without NaN
RECURSIVE SeriesSubRange(_, _, _, _, _)
SeriesSubRange(a, b, lo, hi, acc) ==
    IF lo > hi \/ Len(acc) < lo - 1 THEN acc
    ELSE IF lo = hi THEN Append(acc, a[lo] - b[lo])
    ELSE SeriesSubRange(a, b, (lo + hi) \div 2 + 1, hi,
                        SeriesSubRange(a, b, lo, (lo + hi) \div 2, acc))
SeriesSub(a, b) == SeriesSubRange(a, b, 1, Len(a), << >>)

\* one column of a bar sequence, scaled
RECURSIVE ColumnRange(_, _, _, _, _, _)
ColumnRange(bars, col, scale, lo, hi, acc) ==
    IF lo > hi \/ Len(acc) < lo - 1 THEN acc
    ELSE IF lo = hi THEN Append(acc, scale * bars[lo][col])
    ELSE ColumnRange(bars, col, scale, (lo + hi) \div 2 + 1, hi,
                     ColumnRange(bars, col, scale, lo, (lo + hi) \div 2, acc))
Column(bars, col, scale) == ColumnRange(bars, col, scale, 1, Len(bars), << >>)

\* calculate_macd, the drift flag of one bar:
\*   (diff > 0) & (diff.shift(1) < diff) & (macd_line < signal_line)
\* | (diff < 0) & (diff.shift(1) > diff) & (macd_line > signal_line)
DriftFlag(diff, prevDiff, line, sig) ==
    \/ (Gt(diff, 0) /\ Lt(prevDiff, diff) /\ Lt(line, sig))
    \/ (Lt(diff, 0) /\ Gt(prevDiff, diff) /\ Gt(line, sig))

RECURSIVE DriftRange(_, _, _, _, _, _)
DriftRange(hist, line, sig, lo, hi, acc) ==
    IF lo > hi \/ Len(acc) < lo - 1 THEN acc
    ELSE IF lo = hi
    THEN Append(acc, IF DriftFlag(hist[lo],
                                  IF lo = 1 THEN NaN ELSE hist[lo - 1],
                                  line[lo], sig[lo])
                     THEN 1 ELSE 0)
    ELSE DriftRange(hist, line, sig, (lo + hi) \div 2 + 1, hi,
                    DriftRange(hist, line, sig, lo, (lo + hi) \div 2, acc))

\* calculate_macd: macd_line, macd_signal, macd_hist and macd_drift
\* (macd_momentum_pct is formed from macd_hist where it is compared)
MacdOf(line, sig, hist) ==
    [macd_line   |-> line,
     macd_signal |-> sig,
     macd_hist   |-> hist,
     macd_drift  |-> DriftRange(hist, line, sig, 1, Len(hist), << >>)]

MacdOfLine(line, sig) == MacdOf(line, sig, SeriesSub(line, sig))

calculate_macd(bars, fast, slow, signal) ==
    LET line == SeriesSub(Ewm(Column(bars, "close", 100), fast),
                          Ewm(Column(bars, "close", 100), slow))
    IN  MacdOfLine(line, Ewm(line, signal))

\* RSV = (close - ll) / (hh - ll + 1e-8) * 100.  With low <= close <= high
\* the 1e-8 guard only matters when hh = ll, and then close = ll: RSV = 0.
Rsv(close, ll, hh) ==
    IF ll = NaN \/ hh = NaN THEN NaN
    ELSE IF hh = ll THEN 0
    ELSE ((close - ll) * 10000) \div (hh - ll)

RECURSIVE RsvRange(_, _, _, _, _, _)
RsvRange(bars, ll, hh, lo, hi, acc) ==
    IF lo > hi \/ Len(acc) < lo - 1 THEN acc
    ELSE IF lo = hi THEN Append(acc, Rsv(bars[lo].close, ll[lo], hh[lo]))
    ELSE RsvRange(bars, ll, hh, (lo + hi) \div 2 + 1, hi,
                  RsvRange(bars, ll, hh, lo, (lo + hi) \div 2, acc))

\* kdj_k_slope = k.diff().fillna(0) * 100
RECURSIVE KSlopeRange(_, _, _, _)
KSlopeRange(k, lo, hi, acc) ==
    IF lo > hi \/ Len(acc) < lo - 1 THEN acc
    ELSE IF lo = hi
    THEN Append(acc, IF lo = 1 \/ k[lo] = NaN \/ k[lo - 1] = NaN THEN 0
                     ELSE k[lo] - k[lo - 1])
    ELSE KSlopeRange(k, (lo + hi) \div 2 + 1, hi,
                     KSlopeRange(k, lo, (lo + hi) \div 2, acc))

KSlopeOf(k) == KSlopeRange(k, 1, Len(k), << >>)

\* calculate_kdj: the column kdj_k_slope (kdj_d and kdj_j are never read)
calculate_kdj(bars, period, smooth_k) ==
    KSlopeOf(Ewm(RsvRange(bars,
                          RollingMin(Column(bars, "low", 1), period),
                          RollingMax(Column(bars, "high", 1), period),
                          1, Len(bars), << >>),
                 smooth_k))

\* calculate_ma: only the long average (column ma45) is read by the engine
calculate_ma(bars, ma_long) == RollingMean(Column(bars, "close", 1), ma_long)

(***************************************************************************)
(* config/settings.py: StrategyConfig, RiskConfig, ExchangeConfig.         *)
(* max_klines_for_resonance carries its Python type: the optimizer stores  *)
(* it as a float, the dataclass default and the dashboards as an int; its  *)
(* value and momentum_threshold_pct are in tenths.                         *)
(***************************************************************************)
DefaultConfig ==
    [macd_fast |-> 3, macd_slow |-> 18, macd_signal |-> 6,
     kdj_period |-> 9, kdj_smooth_k |-> 3, kdj_smooth_d |-> 3,
     ma_short |-> 5, ma_mid |-> 10, ma_long |-> 45,
     max_klines_for_resonance |-> [tenths |-> 40, type |-> "int"],
     momentum_threshold_pct |-> 150]

\* RiskConfig.stop_loss_buffer = 0.003, in 1/1000
StopLossBufferPerMille == 3
\* ExchangeConfig.fee_rate_taker = 0.0006, in 1/10000
FeeRateTakerPer10k == 6

(***************************************************************************)
(* paferr_strategy.py                                                      *)
(***************************************************************************)
MinBars == 50
SignalCooldown == 15
KSlopeGate == 25

\* add_paferr_features on a bar sequence: the columns the engine reads
add_paferr_features(bars, cfg) ==
    [close       |-> Column(bars, "close", 1),
     high        |-> Column(bars, "high", 1),
     low         |-> Column(bars, "low", 1),
     macd        |-> calculate_macd(bars, cfg.macd_fast, cfg.macd_slow,
                                    cfg.macd_signal),
     kdj_k_slope |-> calculate_kdj(bars, cfg.kdj_period, cfg.kdj_smooth_k),
     ma45        |-> calculate_ma(bars, cfg.ma_long)]

\* df.resample(rule, on='timestamp').agg(first/max/min/last).dropna():
\* one bar per non-empty bucket of `width` minutes, buckets aligned to
\* midnight
ResampleStep(acc, b, width) ==
    IF Len(acc) > 0 /\ acc[Len(acc)].ts = (b.ts \div width) * width
    THEN [acc EXCEPT ![Len(acc)] =
             [ts    |-> acc[Len(acc)].ts,
              high  |-> Max2(acc[Len(acc)].high, b.high),
              low   |-> Min2(acc[Len(acc)].low, b.low),
              close |-> b.close]]
    ELSE Append(acc, [b EXCEPT !.ts = (b.ts \div width) * width])

RECURSIVE ResampleRange(_, _, _, _, _)
ResampleRange(bars, width, lo, hi, acc) ==
    IF lo > hi \/ Len(acc) > hi THEN acc
    ELSE IF lo = hi THEN ResampleStep(acc, bars[lo], width)
    ELSE ResampleRange(bars, width, (lo + hi) \div 2 + 1, hi,
                       ResampleRange(bars, width, lo, (lo + hi) \div 2, acc))

Resample(bars, width) == ResampleRange(bars, width, 1, Len(bars), << >>)

\* get_trend_status returns the Python constant False from its early
\* return and a numpy.bool_ from the comparison; `is False` (line 93) tells
\* the two apart
PyFalse == [value |-> FALSE, numpy |-> FALSE]
NumpyBool(b) == [value |-> b, numpy |-> TRUE]

\* get_trend_status on a frame that carries its features
TrendOf(f, n) ==
    IF n < 2 THEN PyFalse
    ELSE NumpyBool(Gt(100 * f.close[n], f.ma45[n])
                   /\ Gt(f.macd.macd_hist[n], 0))

\* get_trend_status of an aggregate: features only if it has >= 50 bars,
\* otherwise the frame is empty and the early return is taken
get_trend_status(agg, cfg) ==
    IF Len(agg) >= MinBars
    THEN TrendOf(add_paferr_features(agg, cfg), Len(agg))
    ELSE PyFalse

\* _check_momentum: abs(macd_momentum_pct) > threshold and abs(k_slope) > 25
\* macd_momentum_pct = (|h| - |hp|) / (|hp| + 1e-8) * 100, compared without
\* dividing; thr10 is the threshold in tenths of a percent
MomentumExceeds(h, hp, thr10) ==
    IF h = NaN \/ hp = NaN THEN FALSE
    ELSE Abs(Abs(h) - Abs(hp)) * 1000 > thr10 * Abs(hp)

check_momentum(f, n, cfg) ==
    /\ MomentumExceeds(f.macd.macd_hist[n],
                       IF n = 1 THEN NaN ELSE f.macd.macd_hist[n - 1],
                       cfg.momentum_threshold_pct)
    /\ Abs(f.kdj_k_slope[n]) > KSlopeGate

\* _check_timeliness: df.tail(k), count of close > ma45 at least k
check_timeliness(f, n, k) ==
    Cardinality({i \in (Max2(1, n - k + 1))..n :
                    Gt(100 * f.close[i], f.ma45[i])}) >= k

\* _check_drift_accumulation: df.tail(5)['macd_drift'].sum()
check_drift_accumulation(f, n) ==
    FoldSum(f.macd.macd_drift, Max2(1, n - 4), n)

\* _check_resonance: the trend of the native frame and of its 30-minute,
\* 1-hour and 4-hour aggregates
check_resonance(bars, f, cfg) ==
    [m15 |-> TrendOf(f, Len(bars)),
     m30 |-> get_trend_status(Resample(bars, 30), cfg),
     h1  |-> get_trend_status(Resample(bars, 60), cfg),
     h4  |-> get_trend_status(Resample(bars, 240), cfg)]

\* sum(resonance.values())
TotalResonance(r) ==
    Cardinality({k \in {"m15", "m30", "h1", "h4"} : r[k].value})

(***************************************************************************)
(* Frames.  A frame is the first n bars of a series whose first bar is     *)
(* stamped `off` minutes after midnight; its last bar is the closed bar    *)
(* the engine evaluates.                                                   *)
(***************************************************************************)
SimBars == 100
ReplayStart == 10

FrameLens == {1, 49, 50, 51, 53, 100, 199, 200}
Offsets == {0, 5}

EngineFrames == [shape : Shapes, n : FrameLens, off : Offsets]
ReplayFrames == [shape : Shapes, n : (ReplayStart + 1)..SimBars, off : {0}]

\* pd.to_datetime(df['timestamp'].iloc[-1])
LastBarTime(fr) == fr.off + BarMinutes * (fr.n - 1)

\* the indicator parameters of a configuration (what add_paferr_features
\* reads)
IndicatorKey(cfg) ==
    [macd_fast |-> cfg.macd_fast, macd_slow |-> cfg.macd_slow,
     macd_signal |-> cfg.macd_signal, kdj_period |-> cfg.kdj_period,
     kdj_smooth_k |-> cfg.kdj_smooth_k, ma_long |-> cfg.ma_long]

\* generate_signal line 84 and _check_resonance on one frame: the enriched
\* native frame and the four trends
EnrichWith(bars, f, key) ==
    [f |-> f, resonance |-> check_resonance(bars, f, key)]

Enrich(fr, key) ==
    EnrichWith(Bars(fr.shape, fr.n, fr.off),
               add_paferr_features(Bars(fr.shape, fr.n, fr.off), key), key)

(***************************************************************************)
(* utils/optimization.py, the parameter sets handed to the objective as    *)
(* keyword arguments, values in tenths (30.7 is 307).  The search phases   *)
(* pass all eleven names; a direct call may pass any subset.               *)
(***************************************************************************)
ParamSets ==
    {[momentum_threshold_pct |-> 125],
     [ma_long |-> 307, momentum_threshold_pct |-> 150],
     [macd_fast |-> 37, macd_slow |-> 182, macd_signal |-> 64,
      kdj_period |-> 95, kdj_smooth_k |-> 31, kdj_smooth_d |-> 30,
      ma_short |-> 52, ma_mid |-> 108, ma_long |-> 457,
      momentum_threshold_pct |-> 150, max_klines_for_resonance |-> 43]}

\* the value setattr stores for key k: int(v), except for the two keys that
\* are stored as float(v)
StoredValue(k, v) ==
    IF k = "max_klines_for_resonance" THEN [tenths |-> v, type |-> "float"]
    ELSE IF k = "momentum_threshold_pct" THEN v
    ELSE v \div 10

\* lines 23-28: for k, v in params.items(): if hasattr(config, k): setattr
ApplyParams(cfg, p) ==
    [k \in DOMAIN cfg |-> IF k \in DOMAIN p THEN StoredValue(k, p[k])
                                            ELSE cfg[k]]

\* every configuration the shared StrategyConfig can hold
RECURSIVE ConfigClosure(_)
ConfigClosure(S) ==
    IF {ApplyParams(c, p) : c \in S, p \in ParamSets} \subseteq S THEN S
    ELSE ConfigClosure(S \cup {ApplyParams(c, p) : c \in S, p \in ParamSets})

Configs == ConfigClosure({DefaultConfig})
IndicatorKeys == {IndicatorKey(c) : c \in Configs}

\* the frames generate_signal reads (of a frame shorter than MinBars it
\* reads nothing)
NeededFrames == {x \in EngineFrames \cup ReplayFrames : x.n >= MinBars}
MaxFrameLen == CHOOSE m \in FrameLens \cup {SimBars} :
                   \A x \in FrameLens \cup {SimBars} : x <= m

\* the enriched frames of one series, by length
RECURSIVE EnrichedRange(_, _, _, _, _, _)
EnrichedRange(key, shape, off, lo, hi, acc) ==
    IF lo > hi \/ Len(acc) < lo - MinBars THEN acc
    ELSE IF lo = hi
    THEN Append(acc, IF [shape |-> shape, n |-> lo, off |-> off] \in NeededFrames
                     THEN Enrich([shape |-> shape, n |-> lo, off |-> off], key)
                     ELSE << >>)
    ELSE EnrichedRange(key, shape, off, (lo + hi) \div 2 + 1, hi,
                       EnrichedRange(key, shape, off, lo, (lo + hi) \div 2, acc))

\* the enriched frames, computed once per indicator parameters and series
EnrichedFrames ==
    {[key |-> key, shape |-> shape, off |-> off,
      rows |-> EnrichedRange(key, shape, off, MinBars, MaxFrameLen, << >>)] :
        key \in IndicatorKeys, shape \in Shapes, off \in Offsets}

Enriched(key, fr) ==
    (CHOOSE r \in EnrichedFrames :
         r.key = key /\ r.shape = fr.shape /\ r.off = fr.off).rows[
             fr.n - MinBars + 1]

(***************************************************************************)
(* PAFERStrategy.generate_signal.  last_signal_time is << >> for None and  *)
(* <<t>> for a timestamp.  The result is the returned dict, with           *)
(* action = "none" for a None return and action = "raise" for an exception *)
(* that leaves the method.                                                 *)
(***************************************************************************)
NoSignal == [action |-> "none"]
Hold == [action |-> "hold", reason |-> "No valid PAFER signal"]
Raise(e) == [action |-> "raise", error |-> e]

\* a cooldown that still holds at the full window (variant of line 87)
InCooldownInclusive(last, now) ==
    last # << >> /\ now - last[1] <= SignalCooldown

\* a cooldown that looks forward in time only (variant of line 87)
InCooldownForwardOnly(last, now) ==
    last # << >> /\ now - last[1] < SignalCooldown /\ now >= last[1]

\* line 87: self.last_signal_time and (now - last) < self.signal_cooldown
InCooldown(last, now) ==
    last # << >> /\ now - last[1] < SignalCooldown

\* leverage = min(50, max(20, 20 + drift_count * 5))
Leverage(drift_count) == Min2(50, Max2(20, 20 + drift_count * 5))

\* the long average of the last bar in cents
Ma45Cents(f, n) == f.ma45[n] \div 100

\* a buy intent with the stop derived from the bar range and the target
\* from the long average (variant of lines 100-114)
BuyIntentSwapped(f, n, total, drift_count) ==
    [action      |-> "buy",
     reason      |-> <<"PAFER Bullish Resonance", total>>,
     confidence  |-> 70 + 10 * drift_count,
     stop_loss   |-> f.high[n] + (3 * (f.high[n] - f.low[n])) \div 2,
     take_profit |-> (Ma45Cents(f, n) * (1000 - StopLossBufferPerMille))
                        \div 1000,
     leverage    |-> Leverage(drift_count)]

\* lines 100-114
BuyIntent(f, n, total, drift_count) ==
    [action      |-> "buy",
     reason      |-> <<"PAFER Bullish Resonance", total>>,
     confidence  |-> 70 + 10 * drift_count,
     stop_loss   |-> (Ma45Cents(f, n) * (1000 - StopLossBufferPerMille))
                        \div 1000,
     take_profit |-> f.high[n] + (3 * (f.high[n] - f.low[n])) \div 2,
     leverage    |-> Leverage(drift_count)]

\* lines 117-131
SellIntent(f, n, drift_count) ==
    [action      |-> "sell",
     reason      |-> <<"PAFER Bearish Resonance", 0>>,
     confidence  |-> 65 + 10 * drift_count,
     stop_loss   |-> (Ma45Cents(f, n) * (1000 + StopLossBufferPerMille))
                        \div 1000,
     take_profit |-> f.low[n] - (3 * (f.high[n] - f.low[n])) \div 2,
     leverage    |-> Leverage(drift_count)]

\* a bullish test every count passes (variant of line 92)
IsBullishLoose(total) == total >= 0

\* line 92: is_bullish = total_resonance >= 3
IsBullish(total) == total >= 3

\* line 93: is_bearish = total_resonance == 0 and resonance['4h'] is False
\* (`is False` is true of Python's False only, not of a numpy bool)
IsBearish(resonance) ==
    TotalResonance(resonance) = 0 /\ resonance.h4 = PyFalse

\* a decision that returns None on every frame (variant of lines 90-133)
DecideSilent(e, n, cfg) == NoSignal

\* lines 90-133 on an enriched frame e of n bars.  is_timely is computed
\* (line 96) before the branches: df.tail(k) with a float k raises there
\* (iloc refuses a float slice bound), whatever the resonance
Decide(e, n, cfg) ==
    LET total        == TotalResonance(e.resonance)
        is_bullish   == IsBullish(total)
        is_bearish   == IsBearish(e.resonance)
        has_momentum == check_momentum(e.f, n, cfg)
        klines       == cfg.max_klines_for_resonance
    IN  IF klines.type = "float" THEN Raise("TypeError")
        ELSE IF is_bullish /\ has_momentum
                /\ check_timeliness(e.f, n, klines.tenths \div 10)
        THEN BuyIntent(e.f, n, total, check_drift_accumulation(e.f, n))
        ELSE IF is_bearish /\ has_momentum
                /\ check_timeliness(e.f, n, klines.tenths \div 10)
        THEN SellIntent(e.f, n, check_drift_accumulation(e.f, n))
        ELSE Hold

\* a generate_signal that answers a short frame with a hold intent
\* (variant of lines 81-82)
generate_signal_hold_when_short(last, cfg, fr) ==
    IF fr.n < MinBars THEN Hold
    ELSE IF InCooldown(last, LastBarTime(fr)) THEN NoSignal
    ELSE Decide(Enriched(IndicatorKey(cfg), fr), fr.n, cfg)

\* generate_signal: the returned value
generate_signal(last, cfg, fr) ==
    IF fr.n < MinBars THEN NoSignal
    ELSE IF InCooldown(last, LastBarTime(fr)) THEN NoSignal
    ELSE Decide(Enriched(IndicatorKey(cfg), fr), fr.n, cfg)

\* a call that stamps last_signal_time whenever it returns a dict, the
\* hold intent included (variant of lines 106, 123 and 133)
SignalTimeAfterAnyDict(last, fr, sig) ==
    IF sig.action \in {"buy", "sell", "hold"} THEN <<LastBarTime(fr)>>
    ELSE last

\* generate_signal: self.last_signal_time after the call
SignalTimeAfter(last, fr, sig) ==
    IF sig.action \in {"buy", "sell"} THEN <<LastBarTime(fr)>> ELSE last


(***************************************************************************)
(* utils/helpers.py and core/exchange/huobi_executor.py.  A signal is the  *)
(* dict handed to the executor: a record whose DOMAIN is its key set.      *)
(* A result is the returned dict; [status |-> "raised"] stands for an      *)
(* exception that leaves the method.                                       *)
(***************************************************************************)
InitialBalance == 1000000000
MaxPosition == 500000000
PositionShareTenths == 8
BankruptcyFloor == 100000000

\* calculate_slippage(price, 'market'): uniform(0.0002, 0.0015) times
\* (1 + normal(0, 0.3)); two values of its range, in 1/100000
Slippages == {20, 150}

\* floor(a * b / c) for 0 <= a < 10^9 and 0 < c < 10^6: b = q * c + r, and
\* a * r is divided by c three decimal digits of a at a time, so that no
\* intermediate product leaves 32 bits
MulDiv(a, b, c) ==
    LET r  == b % c
        t2 == (a \div 1000000) * r
        t1 == (t2 % c) * 1000 + ((a \div 1000) % 1000) * r
        t0 == (t1 % c) * 1000 + (a % 1000) * r
    IN  a * (b \div c)
        + ((t2 \div c) * 1000 + (t1 \div c)) * 1000 + (t0 \div c)

\* Python's round: to the nearest multiple of unit, a tie to the even one,
\* the same for x and -x
RoundTo(x, unit) ==
    LET q == Abs(x) \div unit
        r == Abs(x) % unit
        n == IF 2 * r > unit \/ (2 * r = unit /\ q % 2 = 1) THEN q + 1 ELSE q
    IN  IF x < 0 THEN 0 - n * unit ELSE n * unit

\* round(x, 6) and round(x, 4) on a quantity carried with 7 decimals
Round6(x) == RoundTo(x, 10)
Round4(x) == RoundTo(x, 1000)

\* line 95: size_usd = min(50.0, self.virtual_balance * 0.8)
SizeUsd(balance) == Min2(MaxPosition, MulDiv(balance, PositionShareTenths, 10))

\* the fee at the maker rate 0.0002 (variant of line 96)
FeeOfMaker(size) == MulDiv(size, 2, 10000)

\* line 96: fee = size_usd * Config.EXCHANGE.fee_rate_taker
FeeOf(size) == MulDiv(size, FeeRateTakerPer10k, 10000)

\* line 98: exec_price = price * (1 + slippage) for a buy, price *
\* (1 - slippage) otherwise
ExecPrice(action, price, slip) ==
    IF action = "buy" THEN price + (price * slip) \div 100000
    ELSE price - (price * slip) \div 100000

\* a pnl that is the fee whatever the fill hits (variant of lines 101-111)
PnlFeeOnly(signal, size, fee, exec) == 0 - fee

\* lines 101-111: the fill-time pnl
Pnl(signal, size, fee, exec) ==
    IF signal.action = "buy"
    THEN IF exec <= signal.stop_loss
         THEN 0 - MulDiv(size, exec - signal.stop_loss, exec) - fee
         ELSE IF exec >= signal.take_profit
         THEN MulDiv(size, exec - signal.take_profit, exec) - fee
         ELSE 0
    ELSE IF exec >= signal.stop_loss
         THEN 0 - MulDiv(size, exec - signal.stop_loss, exec) - fee
         ELSE IF exec <= signal.take_profit
         THEN MulDiv(size, signal.take_profit - exec, exec) - fee
         ELSE 0

\* lines 102-111: signal['stop_loss'] is read first, signal['take_profit']
\* only when the stop is not hit; a missing key raises KeyError
PnlRaises(signal, exec) ==
    \/ "stop_loss" \notin DOMAIN signal
    \/ /\ "take_profit" \notin DOMAIN signal
       /\ IF signal.action = "buy" THEN ~(exec <= signal.stop_loss)
          ELSE ~(exec >= signal.stop_loss)

\* a bankruptcy test against zero (variant of line 114)
IsBankruptBelowZero(new_balance) == new_balance < 0

\* line 114: is_bankrupt = new_balance < 10.0
IsBankrupt(new_balance) == new_balance < BankruptcyFloor

\* reset_virtual_account on the executor's fields
reset_virtual_account(ex) ==
    [ex EXCEPT !.virtual_balance = InitialBalance, !.virtual_trades = << >>]

\* lines 121-133.  trade_id is VIRT_<int(timestamp.timestamp())>: whole
\* seconds.  pnl, fee and net_pnl are rounded to 6 decimals each,
\* balance_after to 4; the prices are already carried in fewer decimals
\* than round(exec_price, 4) keeps
TradeDict(signal, timestamp, exec, pnl, fee, new_balance) ==
    [trade_id      |-> timestamp * 60,
     side          |-> signal.action,
     open_time     |-> timestamp,
     open_price    |-> exec,
     close_time    |-> timestamp,
     close_price   |-> exec,
     pnl           |-> Round6(pnl),
     fee           |-> Round6(fee),
     net_pnl       |-> Round6(pnl - fee),
     balance_after |-> Round4(new_balance),
     reason        |-> signal.reason]

\* db_manager.save_trade through save_virtual_trade: INSERT OR REPLACE on
\* the unique trade_id removes the row that has it and adds the new row
\* at the end
save_virtual_trade(rows, trade) ==
    Append(SelectSeq(rows, LAMBDA r : r.trade_id # trade.trade_id), trade)

\* what a call leaves behind: the executor's fields, the trades table,
\* the returned value, and (for the record) balance + pnl as computed on
\* line 113 and whether an exception was raised on the way
ExecReturn(ex, rows, result, computed, exception) ==
    [virtual_balance |-> ex.virtual_balance,
     virtual_trades  |-> ex.virtual_trades,
     db_trades       |-> rows,
     result          |-> result,
     computed        |-> computed,
     exception       |-> exception]

\* lines 113-141, after pnl is known
Settle(ex, rows, signal, timestamp, exec, pnl, fee) ==
    LET new_balance == IF IsBankrupt(ex.virtual_balance + pnl)
                       THEN InitialBalance ELSE ex.virtual_balance + pnl
        after       == IF IsBankrupt(ex.virtual_balance + pnl)
                       THEN reset_virtual_account(ex) ELSE ex
    IN  IF "reason" \notin DOMAIN signal
        THEN \* KeyError on line 132, after the bankruptcy branch
             ExecReturn(after, rows,
                        [status |-> "error", message |-> "KeyError"],
                        ex.virtual_balance + pnl, TRUE)
        ELSE ExecReturn(
                 [virtual_balance |-> new_balance,
                  virtual_trades  |->
                      Append(after.virtual_trades,
                             TradeDict(signal, timestamp, exec, pnl, fee,
                                       new_balance))],
                 save_virtual_trade(rows,
                     TradeDict(signal, timestamp, exec, pnl, fee,
                               new_balance)),
                 TradeDict(signal, timestamp, exec, pnl, fee, new_balance),
                 ex.virtual_balance + pnl, FALSE)

\* execute_virtual_trade(signal, price, timestamp) with the slippage drawn
execute_virtual_trade(ex, rows, signal, price, timestamp, slip) ==
    IF "action" \notin DOMAIN signal
    THEN \* line 91 is outside the try block
         ExecReturn(ex, rows, [status |-> "raised", error |-> "KeyError"],
                    NaN, TRUE)
    ELSE IF signal.action = "hold"
    THEN ExecReturn(ex, rows, [status |-> "ignored"], NaN, FALSE)
    ELSE IF PnlRaises(signal, ExecPrice(signal.action, price, slip))
    THEN ExecReturn(ex, rows, [status |-> "error", message |-> "KeyError"],
                    NaN, TRUE)
    ELSE Settle(ex, rows, signal, timestamp,
                ExecPrice(signal.action, price, slip),
                Pnl(signal, SizeUsd(ex.virtual_balance),
                    FeeOf(SizeUsd(ex.virtual_balance)),
                    ExecPrice(signal.action, price, slip)),
                FeeOf(SizeUsd(ex.virtual_balance)))

(***************************************************************************)
(* utils/optimization.py: AutoOptimizer._objective_function.  The random   *)
(* draws of one call (np.random, seeded on line 31) are a price series and *)
(* the slippages of its fills, the k-th fill taking the k-th slippage.     *)
(***************************************************************************)
MinTrades == 5
None == [type |-> "None"]

SlippageRuns == {<<150, 20>>}
\* a run in which every fill draws the same slippage
SteadyRun == <<150, 150>>
Draws == [shape : Shapes, slips : SlippageRuns]
             \cup {[shape |-> "kick", slips |-> SteadyRun]}

SlipOf(draw, k) == draw.slips[(k % Len(draw.slips)) + 1]

\* line 60: pnls = [t['net_pnl'] for t in trades], taken in milli-USDT so
\* that the sums of squares below stay within 32 bits
MilliOf(x) == x \div 10000

\* what the replay loop has touched after some windows: the strategy's
\* cooldown state, the executor's account, the trades table, the local
\* list `trades` (its net_pnl values), and whether generate_signal raised
ReplayInit(last, sent, ex, rows) ==
    [last_signal_time |-> last,
     emitted          |-> sent,
     virtual_balance  |-> ex.virtual_balance,
     virtual_trades   |-> ex.virtual_trades,
     db_trades        |-> rows,
     trades           |-> << >>,
     fills            |-> 0,
     buys             |-> 0,
     raised           |-> FALSE]

\* lines 50-54: the fill of one buy/sell signal
ReplayFill(st, sig, fr, draw) ==
    LET r == execute_virtual_trade(
                 [virtual_balance |-> st.virtual_balance,
                  virtual_trades  |-> st.virtual_trades],
                 st.db_trades, sig, ShapeClose(fr.shape, fr.n - 1),
                 LastBarTime(fr), SlipOf(draw, st.fills))
    IN  [st EXCEPT
            !.last_signal_time = <<LastBarTime(fr)>>,
            !.emitted          = Append(st.emitted, LastBarTime(fr)),
            !.virtual_balance  = r.virtual_balance,
            !.virtual_trades   = r.virtual_trades,
            !.db_trades        = r.db_trades,
            !.fills            = st.fills + 1,
            !.buys             = st.buys + (IF sig.action = "buy" THEN 1 ELSE 0),
            !.trades           = IF "pnl" \in DOMAIN r.result
                                 THEN Append(st.trades, MilliOf(r.result.net_pnl))
                                 ELSE st.trades]

\* lines 47-54: one window of the replay
ReplayStep(st, cfg, draw, n) ==
    LET fr  == [shape |-> draw.shape, n |-> n, off |-> 0]
        sig == generate_signal(st.last_signal_time, cfg, fr)
    IN  IF sig.action = "raise" THEN [st EXCEPT !.raised = TRUE]
        ELSE IF sig.action \in {"buy", "sell"}
        THEN ReplayFill(st, sig, fr, draw)
        ELSE st

\* line 46: for i in range(10, len(df_sim)), window = df_sim.iloc[:i+1];
\* an exception ends the loop
RECURSIVE ReplayRange(_, _, _, _, _)
ReplayRange(st, cfg, draw, lo, hi) ==
    IF lo > hi \/ st.raised THEN st
    ELSE IF lo = hi THEN ReplayStep(st, cfg, draw, lo)
    ELSE ReplayRange(ReplayRange(st, cfg, draw, lo, (lo + hi) \div 2),
                     cfg, draw, (lo + hi) \div 2 + 1, hi)

Replay(st, cfg, draw) == ReplayRange(st, cfg, draw, ReplayStart + 1, SimBars)

\* integer square root (np.std, np.sqrt)
RECURSIVE IsqrtRange(_, _, _)
IsqrtRange(v, lo, hi) ==
    IF lo >= hi THEN lo
    ELSE IF ((lo + hi + 1) \div 2) * ((lo + hi + 1) \div 2) <= v
    THEN IsqrtRange(v, (lo + hi + 1) \div 2, hi)
    ELSE IsqrtRange(v, lo, (lo + hi + 1) \div 2 - 1)
Isqrt(v) == IsqrtRange(v, 0, 46340)

\* line 61: returns = np.array(pnls) / 100.0.  A pnl of x milli-USDT is a
\* return of x/100000: the returns are the pnl integers read in 1/100000.
RECURSIVE SumSquares(_, _, _)
SumSquares(xs, lo, hi) ==
    IF lo > hi THEN 0 ELSE xs[lo] * xs[lo] + SumSquares(xs, lo + 1, hi)

\* n^2 times the population variance of xs: n * sum(x^2) - sum(x)^2
SpreadOf(xs) ==
    Len(xs) * SumSquares(xs, 1, Len(xs))
    - FoldSum(xs, 1, Len(xs)) * FoldSum(xs, 1, Len(xs))

\* line 65: sharpe = mean / (std + 1e-8) * sqrt(252 * 4), in 1/1000;
\* sqrt(1008) = 31.749
SqrtPeriods1000 == 31749
Sharpe(xs) == (FoldSum(xs, 1, Len(xs)) * SqrtPeriods1000) \div Isqrt(SpreadOf(xs))

\* line 66: win_rate = len([p for p in pnls if p > 0]) / len(pnls), in 1/1000
WinRate(pnls) ==
    (1000 * Cardinality({i \in 1..Len(pnls) : pnls[i] > 0})) \div Len(pnls)

\* line 67: score = 0.7 * sharpe + 0.3 * win_rate
Score(pnls) == (7 * Sharpe(pnls)) \div 10 + (3 * WinRate(pnls)) \div 10

Sentinel == 0 - 1000

\* lines 57-67: the value the objective returns for the trades of a replay
Fitness(pnls) ==
    IF Len(pnls) < MinTrades THEN [kind |-> "sentinel", score |-> Sentinel]
    ELSE IF SpreadOf(pnls) = 0
    THEN [kind |-> "sentinel", score |-> Sentinel]
    ELSE [kind |-> "scored", score |-> Score(pnls)]

\* a persistence that stores nothing (variant of lines 70-80)
SaveTrialNever(d, params, fit, trade_count) == d

\* a save that leaves the older rows' flags alone (variant of line 217)
save_strategy_config_keeps_flags(rows, config_dict) ==
    IF \E i \in 1..Len(rows) : rows[i].config = config_dict
    THEN [raised |-> TRUE, rows |-> rows, config_id |-> 0]
    ELSE [raised |-> FALSE,
          rows |-> Append(rows, [id |-> Len(rows) + 1, config |-> config_dict,
                                 is_active |-> TRUE]),
          config_id |-> Len(rows) + 1]

\* db_manager.save_strategy_config, lines 204-224.  config_hash is UNIQUE
\* and is the hash of the dict's JSON text, which tells two different
\* dicts apart: the INSERT of a dict saved before raises IntegrityError,
\* the connection is closed without a commit and the table is as it was.
\* Otherwise the new row is active, every other row is made inactive, and
\* the new row's id (AUTOINCREMENT, no row is ever deleted) is returned
save_strategy_config(rows, config_dict) ==
    IF \E i \in 1..Len(rows) : rows[i].config = config_dict
    THEN [raised |-> TRUE, rows |-> rows, config_id |-> 0]
    ELSE [raised |-> FALSE,
          rows |-> Append([i \in 1..Len(rows) |->
                              [rows[i] EXCEPT !.is_active = FALSE]],
                          [id |-> Len(rows) + 1, config |-> config_dict,
                           is_active |-> TRUE]),
          config_id |-> Len(rows) + 1]

\* db_manager.save_strategy_config and save_optimization_result, lines
\* 70-80 of the objective: saving a parameter set a second time raises,
\* and the except clause drops the trial
SaveTrial(d, params, fit, trade_count) ==
    LET saved == save_strategy_config(d.strategy_configs, params)
    IN  IF saved.raised THEN d
        ELSE [d EXCEPT
                !.strategy_configs = saved.rows,
                !.opt_history =
                    Append(d.opt_history,
                           [generation |-> 0,
                            config_id |-> saved.config_id,
                            fitness |-> fit.score,
                            trade_count |-> trade_count])]

\* a best-so-far that is never replaced (variant of lines 82-85)
UpdateBestNever(best, score, params) == best

\* lines 82-85: if score > self.best_score
UpdateBest(best, score, params) ==
    IF score > best.score THEN [score |-> score, config |-> params] ELSE best

\* run(method = "hybrid"), lines 193-197.  hof[0] is a deap Individual, a
\* list: `**genetic` on line 195 raises TypeError before the objective is
\* entered, so line 196 is not reached when both results are there
Individual == [type |-> "Individual",
               genes |-> <<3, 18, 6, 9, 3, 3, 5, 10, 45, 150, 43>>]

HybridResult(bayes, genetic) ==
    IF bayes # None /\ genetic # None THEN Raise("TypeError")
    ELSE IF bayes # None THEN bayes.params
    ELSE genetic

(***************************************************************************)
(* Inputs of the simulator when it is driven directly: the dict and the    *)
(* price a caller passes.  Prices in cents.                                *)
(***************************************************************************)
SimOrders ==
    {[signal |-> Hold, price |-> 300000],
     \* a long whose stop and target bracket the price
     [signal |-> [action |-> "buy", reason |-> "long", stop_loss |-> 297000,
                  take_profit |-> 300200], price |-> 300000],
     \* a long filled far below its stop
     [signal |-> [action |-> "buy", reason |-> "gap", stop_loss |-> 300000,
                  take_profit |-> 310000], price |-> 290000],
     \* a short whose stop and target bracket the price
     [signal |-> [action |-> "sell", reason |-> "short", stop_loss |-> 303000,
                  take_profit |-> 299800], price |-> 300000],
     \* a short filled far above its stop
     [signal |-> [action |-> "sell", reason |-> "squeeze", stop_loss |-> 30000,
                  take_profit |-> 20000], price |-> 300000],
     \* the same without the key 'reason'
     [signal |-> [action |-> "sell", stop_loss |-> 30000,
                  take_profit |-> 20000], price |-> 300000],
     \* a long without the key 'stop_loss'
     [signal |-> [action |-> "buy", reason |-> "long",
                  take_profit |-> 300200], price |-> 300000],
     \* a dict without the key 'action'
     [signal |-> [reason |-> "long"], price |-> 300000]}

SimTimes == {0, 15}

(***************************************************************************)
(* State.                                                                  *)
(*   config            Config.STRATEGY, the StrategyConfig every component *)
(*                     shares                                              *)
(*   last_signal_time  PAFERStrategy.last_signal_time                      *)
(*   emitted           the last-bar times of the calls that returned buy   *)
(*                     or sell since the engine was constructed or reset   *)
(*   virtual_balance, virtual_trades   TradeExecutor's account             *)
(*   db                the tables trades, strategy_configs, opt_history    *)
(*   best_score, best_config           AutoOptimizer's best-so-far         *)
(*   returned          what the objective calls returned, in order         *)
(*   executions        number of direct execute_virtual_trade calls        *)
(*   ret               what the last operation was, what it was given and  *)
(*                     what it returned                                    *)
(***************************************************************************)
VARIABLES config, last_signal_time, emitted, virtual_balance, virtual_trades,
          db, best_score, best_config, returned, executions, ret

vars == <<config, last_signal_time, emitted, virtual_balance, virtual_trades,
          db, best_score, best_config, returned, executions, ret>>

strategyVars == <<last_signal_time, emitted>>
executorVars == <<virtual_balance, virtual_trades, executions>>
optimizerVars == <<best_score, best_config, returned>>

MaxEmits == 3
MaxFills == 3
MaxTrials == 2

Init ==
    /\ config = DefaultConfig
    /\ last_signal_time = << >>
    /\ emitted = << >>
    /\ virtual_balance = InitialBalance
    /\ virtual_trades = << >>
    /\ db = [trades |-> << >>, strategy_configs |-> << >>,
             opt_history |-> << >>]
    /\ best_score = NegInf
    /\ best_config = None
    /\ returned = << >>
    /\ executions = 0
    /\ ret = [op |-> "init"]

\* what a reset records of the call before it: the frame and the intent
\* of a generate_signal call that returned buy or sell, None otherwise
LastEmission ==
    IF ret.op = "generate_signal" /\ ret.result.action \in {"buy", "sell"}
    THEN [frame |-> ret.frame, result |-> ret.result]
    ELSE None

\* strategy.generate_signal(df) on one frame.  `resonance` is the dict of
\* line 90 when the call gets that far, `after_reset` what the reset just
\* before this call recorded
GenerateSignal(fr) ==
    LET sig == generate_signal(last_signal_time, config, fr)
    IN  /\ Len(emitted) < MaxEmits
        /\ last_signal_time' = SignalTimeAfter(last_signal_time, fr, sig)
        /\ emitted' = IF sig.action \in {"buy", "sell"}
                      THEN Append(emitted, LastBarTime(fr)) ELSE emitted
        /\ ret' = [op |-> "generate_signal", frame |-> fr, result |-> sig,
                   last_before |-> last_signal_time,
                   resonance |->
                       IF /\ fr.n >= MinBars
                          /\ ~InCooldown(last_signal_time, LastBarTime(fr))
                       THEN Enriched(IndicatorKey(config), fr).resonance
                       ELSE None,
                   after_reset |->
                       IF ret.op = "reset" THEN ret.last_emission ELSE None]
        /\ UNCHANGED <<config, executorVars, db, optimizerVars>>

\* a reset that leaves last_signal_time as it is (variant of lines 135-137)
ResetKeepsCooldown ==
    /\ last_signal_time' = last_signal_time
    /\ emitted' = << >>
    /\ ret' = [op |-> "reset", last_emission |-> LastEmission]
    /\ UNCHANGED <<config, executorVars, db, optimizerVars>>

\* strategy.reset()
Reset ==
    /\ last_signal_time' = << >>
    /\ emitted' = << >>
    /\ ret' = [op |-> "reset", last_emission |-> LastEmission]
    /\ UNCHANGED <<config, executorVars, db, optimizerVars>>

\* executor.execute_virtual_trade(signal, price, timestamp)
ExecuteVirtualTrade(order, timestamp, slip) ==
    LET r == execute_virtual_trade(
                 [virtual_balance |-> virtual_balance,
                  virtual_trades  |-> virtual_trades],
                 db.trades, order.signal, order.price, timestamp, slip)
    IN  /\ executions < MaxFills
        /\ executions' = executions + 1
        /\ virtual_balance' = r.virtual_balance
        /\ virtual_trades' = r.virtual_trades
        /\ db' = [db EXCEPT !.trades = r.db_trades]
        /\ ret' = [op |-> "execute_virtual_trade", signal |-> order.signal,
                   price |-> order.price,
                   exec_price |-> IF "action" \in DOMAIN order.signal
                                  THEN ExecPrice(order.signal.action,
                                                 order.price, slip)
                                  ELSE NaN,
                   result |-> r.result, computed |-> r.computed,
                   exception |-> r.exception,
                   balance_before |-> virtual_balance,
                   trades_before |-> virtual_trades]
        /\ UNCHANGED <<config, strategyVars, optimizerVars>>

\* executor.reset_virtual_account()
ResetVirtualAccount ==
    /\ virtual_balance' = InitialBalance
    /\ virtual_trades' = << >>
    /\ ret' = [op |-> "reset_virtual_account"]
    /\ UNCHANGED <<config, strategyVars, db, optimizerVars, executions>>

\* optimizer._objective_function(**params) with its random draws.  `fresh`
\* is, for comparison, the same replay on a strategy and an executor that
\* have served no trial
Objective(params, draw) ==
    LET cfg   == ApplyParams(config, params)
        st    == Replay(ReplayInit(last_signal_time, emitted,
                                   [virtual_balance |-> virtual_balance,
                                    virtual_trades  |-> virtual_trades],
                                   db.trades), cfg, draw)
        fresh == Replay(ReplayInit(<< >>, << >>,
                                   [virtual_balance |-> InitialBalance,
                                    virtual_trades  |-> << >>],
                                   << >>), cfg, draw)
        fit   == IF st.raised THEN [kind |-> "raised", score |-> NaN]
                 ELSE Fitness(st.trades)
        best  == IF fit.kind = "scored"
                 THEN UpdateBest([score |-> best_score, config |-> best_config],
                                 fit.score, params)
                 ELSE [score |-> best_score, config |-> best_config]
    IN  /\ Len(returned) < MaxTrials
        /\ config' = cfg
        /\ last_signal_time' = st.last_signal_time
        /\ emitted' = st.emitted
        /\ virtual_balance' = st.virtual_balance
        /\ virtual_trades' = st.virtual_trades
        /\ db' = IF fit.kind = "scored"
                 THEN SaveTrial([db EXCEPT !.trades = st.db_trades], params,
                                fit, Len(st.trades))
                 ELSE [db EXCEPT !.trades = st.db_trades]
        /\ best_score' = best.score
        /\ best_config' = best.config
        /\ returned' = Append(returned, [params |-> params, kind |-> fit.kind,
                                         score |-> fit.score])
        /\ ret' = [op |-> "objective", params |-> params, draw |-> draw,
                   kind |-> fit.kind, score |-> fit.score,
                   trades |-> st.trades, buys |-> st.buys,
                   served |-> Len(returned),
                   fresh |-> [trades |-> fresh.trades, buys |-> fresh.buys,
                              kind |-> IF fresh.raised THEN "raised"
                                       ELSE Fitness(fresh.trades).kind,
                              score |-> IF fresh.raised THEN NaN
                                        ELSE Fitness(fresh.trades).score]]
        /\ UNCHANGED executions

\* the results the two search phases can hand to run(): None when the
\* library is missing, otherwise the best of the trials the phase evaluated
BayesResults ==
    {None} \cup {[target |-> returned[i].score, params |-> returned[i].params] :
                    i \in {j \in 1..Len(returned) : returned[j].kind # "raised"}}
GeneticResults == {None, Individual}

\* optimizer.run(method = "hybrid"), lines 193-197; the trials of the two
\* phases are Objective steps
RunHybrid(bayes, genetic) ==
    /\ ret' = [op |-> "run", method |-> "hybrid", bayes |-> bayes,
               genetic |-> genetic, result |-> HybridResult(bayes, genetic)]
    /\ UNCHANGED <<config, strategyVars, executorVars, db, optimizerVars>>

NextEngine ==
    \/ \E fr \in EngineFrames : GenerateSignal(fr)
    \/ Reset

NextSim ==
    \/ \E order \in SimOrders, timestamp \in SimTimes, slip \in Slippages :
           ExecuteVirtualTrade(order, timestamp, slip)
    \/ ResetVirtualAccount

NextOpt ==
    \/ \E params \in ParamSets, draw \in Draws : Objective(params, draw)
    \/ \E bayes \in BayesResults, genetic \in GeneticResults :
           RunHybrid(bayes, genetic)

SpecEngine == Init /\ [][NextEngine]_vars
SpecSim == Init /\ [][NextSim]_vars
SpecOpt == Init /\ [][NextOpt]_vars


(***************************************************************************)
(* Properties of the signal engine (SpecEngine).                           *)
(***************************************************************************)
\* C1: on one engine instance with no reset in between, no two calls both
\* return a buy/sell intent for frames whose last-bar times are less than
\* 15 minutes apart, in either direction.
C1_CooldownSeparation ==
    \A i, j \in 1..Len(emitted) :
        i # j => Abs(emitted[i] - emitted[j]) >= SignalCooldown

\* a frame that would yield an intent on a fresh engine is answered with
\* no-signal because it ends less than 15 minutes before the last intent
C1_SuppressedNearby ==
    /\ ret.op = "generate_signal"
    /\ ret.frame.n >= MinBars
    /\ ret.result = NoSignal
    /\ ret.last_before # << >>
    /\ LastBarTime(ret.frame) < ret.last_before[1]
    /\ ret.last_before[1] - LastBarTime(ret.frame) < SignalCooldown
    /\ generate_signal(<< >>, config, ret.frame).action \in {"buy", "sell"}

\* C8 as stated: every buy or sell intent returned by generate_signal has
\* stop_loss < take_profit.
C8_EveryIntentStopBelowTarget ==
    (ret.op = "generate_signal" /\ ret.result.action \in {"buy", "sell"})
        => ret.result.stop_loss < ret.result.take_profit

\* C8 amended: every buy intent returned by generate_signal has
\* stop_loss < take_profit (a sell intent carries its stop above the long
\* average and its target below the bar's low, in either order).
C8_BuyStopBelowTarget ==
    (ret.op = "generate_signal" /\ ret.result.action = "buy")
        => ret.result.stop_loss < ret.result.take_profit

\* a buy intent has been returned
C8_BuyReturned ==
    /\ ret.op = "generate_signal"
    /\ ret.result.action = "buy"
    /\ TotalResonance(Enriched(IndicatorKey(config), ret.frame).resonance) >= 3

(***************************************************************************)
(* Properties of the simulator (SpecSim).                                  *)
(***************************************************************************)
\* C2: virtual_balance is never below 10 and no trade record, in memory or
\* persisted, has balance_after below 10; a fill whose computed balance
\* (balance + pnl) is below 10 records balance_after = 100 and leaves
\* virtual_balance = 100.
C2_BalanceFloor ==
    /\ virtual_balance >= BankruptcyFloor
    /\ \A i \in 1..Len(virtual_trades) :
           virtual_trades[i].balance_after >= BankruptcyFloor
    /\ \A i \in 1..Len(db.trades) :
           db.trades[i].balance_after >= BankruptcyFloor
    /\ (/\ ret.op = "execute_virtual_trade"
        /\ "pnl" \in DOMAIN ret.result
        /\ ret.computed < BankruptcyFloor)
           => /\ ret.result.balance_after = InitialBalance
              /\ virtual_balance = InitialBalance

\* a fill whose computed balance is below 10 has been recorded
C2_BankruptFill ==
    /\ ret.op = "execute_virtual_trade"
    /\ "pnl" \in DOMAIN ret.result
    /\ ret.computed < BankruptcyFloor
    /\ ret.balance_before < InitialBalance

\* C3 as stated: for a buy fill pnl is a loss (pnl <= 0) when exec_price <=
\* stop_loss, a gain (before the fee) when exec_price >= take_profit, and 0
\* otherwise; mirrored for a sell fill.
C3_PnlSign ==
    (ret.op = "execute_virtual_trade" /\ "pnl" \in DOMAIN ret.result)
        => IF ret.signal.action = "buy"
           THEN IF ret.exec_price <= ret.signal.stop_loss
                THEN ret.result.pnl <= 0
                ELSE IF ret.exec_price >= ret.signal.take_profit
                THEN ret.result.pnl + ret.result.fee >= 0
                ELSE ret.result.pnl = 0
           ELSE IF ret.exec_price >= ret.signal.stop_loss
                THEN ret.result.pnl <= 0
                ELSE IF ret.exec_price <= ret.signal.take_profit
                THEN ret.result.pnl + ret.result.fee >= 0
                ELSE ret.result.pnl = 0

\* C4 as stated, for an exception raised inside the handler's try block:
\* the call returns an error result and virtual_balance and the in-memory
\* trade history are what they were before the call.
C4_ErrorLeavesState ==
    (/\ ret.op = "execute_virtual_trade"
     /\ ret.exception
     /\ "action" \in DOMAIN ret.signal)
        => /\ ret.result.status = "error"
           /\ virtual_balance = ret.balance_before
           /\ virtual_trades = ret.trades_before

(***************************************************************************)
(* Properties of the optimizer (SpecOpt).                                  *)
(***************************************************************************)
\* C5 as stated: the trades and the score of an objective call are those
\* the same parameters and draws give on a strategy and an executor that
\* served no earlier trial.
C5_TrialsIndependent ==
    ret.op = "objective"
        => /\ ret.kind = ret.fresh.kind
           /\ ret.score = ret.fresh.score
           /\ ret.trades = ret.fresh.trades

\* C6 as stated: every score returned for a replay with at least 5 trades
\* is greater than the sentinel -1.
C6_SentinelIsWorst ==
    (ret.op = "objective" /\ ret.kind = "scored" /\ Len(ret.trades) >= MinTrades)
        => ret.score > Sentinel

\* C7 as stated: the replay of 100 linearly rising 15-minute bars over its
\* growing windows, on a fresh engine, yields at least one buy intent.
C7_RampYieldsBuy ==
    (ret.op = "objective" /\ ret.draw.shape = "ramp"
     /\ ret.fresh.kind # "raised")
        => ret.fresh.buys >= 1

\* C9 as stated: with both results available, hybrid run returns one of
\* the two, the surrogate-model result unless the evolutionary one scores
\* strictly higher.
C9_HybridReturnsBetter ==
    (ret.op = "run" /\ ret.bayes # None /\ ret.genetic # None)
        => (ret.result = ret.bayes.params \/ ret.result = ret.genetic)

\* the scores the objective has returned so far, sentinels included
ReturnedIdx == {i \in 1..Len(returned) : returned[i].kind # "raised"}
ScoredIdx == {i \in 1..Len(returned) : returned[i].kind = "scored"}

\* C10 as stated: best_score is the maximum of all scores the objective
\* has returned so far, sentinel returns included, and best_config the
\* parameter set that produced it.
C10_BestIsMaxReturned ==
    ReturnedIdx # {}
        => \E i \in ReturnedIdx :
               /\ \A j \in ReturnedIdx : returned[j].score <= returned[i].score
               /\ best_score = returned[i].score
               /\ best_config = returned[i].params

\* C10 amended: best_score is the maximum of the scores of the calls that
\* reached the scoring step (at least 5 trades, non-zero spread), -inf
\* with best_config unset when there is none, and best_config is the
\* parameter set of the first call that returned that maximum.
C10_BestIsMaxScored ==
    IF ScoredIdx = {} THEN best_score = NegInf /\ best_config = None
    ELSE \E i \in ScoredIdx :
             /\ \A j \in ScoredIdx : returned[j].score <= returned[i].score
             /\ \A j \in ScoredIdx :
                    j < i => returned[j].score < returned[i].score
             /\ best_score = returned[i].score
             /\ best_config = returned[i].params

\* a sentinel return above the best score next to a scored return that
\* holds the best-so-far
C10_SentinelAboveBest ==
    /\ \E i \in ReturnedIdx :
           returned[i].kind = "sentinel" /\ returned[i].score > best_score
    /\ \E j \in ScoredIdx :
           best_score = returned[j].score /\ best_config = returned[j].params


(***************************************************************************)
(* Properties of the trial history (SpecOpt).                              *)
(***************************************************************************)
\* the step is one objective call
ObjectiveStep == Len(returned') = Len(returned) + 1

FillRecorded ==
    ret.op = "execute_virtual_trade" /\ "pnl" \in DOMAIN ret.result

\* C12 as stated: for every recorded trade with size > 0, the recorded
\* net_pnl equals the recorded pnl minus the recorded fee, and the recorded
\* fee equals size * taker_fee_rate exactly, with size = min(50, 0.8 *
\* balance before the fill).
C12_RecordedNetPnlExact ==
    (FillRecorded /\ SizeUsd(ret.balance_before) > 0)
        => /\ ret.result.net_pnl = ret.result.pnl - ret.result.fee
           /\ ret.result.fee =
                  MulDiv(SizeUsd(ret.balance_before), FeeRateTakerPer10k,
                         10000)

\* C12, amended: the three recorded fields are rounded to 6 decimals
\* separately.  The recorded fee is size * taker_fee_rate rounded to 6
\* decimals, the recorded net_pnl is within 0.000001 of recorded pnl
\* minus recorded fee, and both relations are exact when the balance
\* before the fill is at least 62.5 (size = 50, fee = 0.03).
C12_RecordedNetPnlRounded ==
    (FillRecorded /\ SizeUsd(ret.balance_before) > 0)
        => /\ Abs(ret.result.net_pnl - (ret.result.pnl - ret.result.fee))
                  <= 10
           /\ ret.result.fee =
                  Round6(MulDiv(SizeUsd(ret.balance_before),
                                FeeRateTakerPer10k, 10000))
           /\ SizeUsd(ret.balance_before) = MaxPosition
                  => /\ ret.result.net_pnl
                            = ret.result.pnl - ret.result.fee
                     /\ ret.result.fee
                            = (MaxPosition \div 10000) * FeeRateTakerPer10k

\* C12 witness: a recorded fill of a position below the cap whose recorded
\* net_pnl is not recorded pnl minus recorded fee
C12_RoundedApart ==
    /\ FillRecorded
    /\ SizeUsd(ret.balance_before) > 0
    /\ SizeUsd(ret.balance_before) < MaxPosition
    /\ ret.result.net_pnl # ret.result.pnl - ret.result.fee

\* the fill price of the last call is strictly between the stop and the
\* target of its intent
NoLevelHit ==
    IF ret.signal.action = "buy"
    THEN /\ ret.exec_price > ret.signal.stop_loss
         /\ ret.exec_price < ret.signal.take_profit
    ELSE /\ ret.exec_price < ret.signal.stop_loss
         /\ ret.exec_price > ret.signal.take_profit

\* C13: after a successful fill that does not bankrupt the account, the
\* new virtual_balance is the previous balance plus the trade's pnl (the
\* record holds that pnl rounded to 6 decimals) and not plus its net_pnl;
\* a fill that hits neither stop-loss nor take-profit leaves the balance
\* unchanged, with pnl 0 and net_pnl = -fee.
C13_BalanceMovesByPnl ==
    (FillRecorded /\ ~IsBankrupt(ret.computed))
        => /\ virtual_balance = ret.computed
           /\ Abs(virtual_balance - (ret.balance_before + ret.result.pnl))
                  <= 5
           /\ ret.result.fee > 10
           /\ ret.balance_before + ret.result.net_pnl < virtual_balance
           /\ NoLevelHit
                  => /\ virtual_balance = ret.balance_before
                     /\ ret.result.pnl = 0
                     /\ ret.result.net_pnl = 0 - ret.result.fee

\* C13 witness: on an account that an earlier fill has moved, a fill that
\* hits neither level has been recorded
C13_NoHitFill ==
    /\ FillRecorded
    /\ NoLevelHit
    /\ ret.balance_before # InitialBalance
    /\ ret.result.net_pnl < 0
    /\ virtual_balance = ret.balance_before

(***************************************************************************)
(* Properties of generate_signal (SpecEngine).                             *)
(***************************************************************************)
\* C14: generate_signal returns None, not a hold intent, for every frame
\* of fewer than 50 bars, whatever last_signal_time is, and leaves
\* last_signal_time as it was.
C14_ShortFrameNoSignal ==
    (ret.op = "generate_signal" /\ ret.frame.n < MinBars)
        => /\ ret.result = NoSignal
           /\ ret.result # Hold
           /\ last_signal_time = ret.last_before

\* C14 witness: a frame of 49 bars was evaluated on an engine that had
\* emitted before
C14_ShortFrameAfterEmission ==
    /\ ret.op = "generate_signal"
    /\ ret.frame.n = MinBars - 1
    /\ ret.last_before # << >>
    /\ ret.result = NoSignal

C16_ResonanceCountAndExclusion ==
    (ret.op = "generate_signal" /\ ret.resonance # None)
        => /\ TotalResonance(ret.resonance) \in 0..4
           /\ ~(/\ IsBullish(TotalResonance(ret.resonance))
                 /\ IsBearish(ret.resonance))

\* C16 witness: one evaluation was bullish, with three timeframes in trend
C16_BullishEvaluation ==
    /\ ret.op = "generate_signal"
    /\ ret.resonance # None
    /\ TotalResonance(ret.resonance) = 3
    /\ IsBullish(TotalResonance(ret.resonance))
    /\ ~IsBearish(ret.resonance)

\* C17: after reset(), generate_signal on the frame that produced a buy or
\* sell just before the reset is not suppressed: it returns the same
\* buy/sell intent again, whatever was emitted before the reset.
C17_ResetReplaysSignal ==
    (/\ ret.op = "generate_signal"
     /\ ret.after_reset # None
     /\ ret.frame = ret.after_reset.frame)
        => /\ ret.result = ret.after_reset.result
           /\ ret.result.action \in {"buy", "sell"}
           /\ last_signal_time = <<LastBarTime(ret.frame)>>

\* C17 witness: a frame emitted, the engine was reset, and the same frame
\* emitted again
C17_SameFrameEmittedAgain ==
    /\ ret.op = "generate_signal"
    /\ ret.after_reset # None
    /\ ret.frame = ret.after_reset.frame
    /\ ret.result.action \in {"buy", "sell"}
    /\ emitted = <<LastBarTime(ret.frame)>>

(***************************************************************************)
(* Properties of the objective's use of the engine (SpecOpt).              *)
(***************************************************************************)
\* C18 as stated: an objective call leaves the StrategyConfig object that
\* the strategy and the global configuration share with the field values
\* it had before the call.
C18_SharedConfigUntouched ==
    [][ObjectiveStep => config' = config]_vars

\* C19 as stated: an exception raised inside generate_signal is returned
\* as an error result and does not propagate to the caller: no objective
\* call ends with the exception of one of its generate_signal calls.
C19_EngineErrorContained ==
    ret.op = "objective" => ret.kind # "raised"

(***************************************************************************)
(* Properties of the indicator columns (SpecEngine).                       *)
(***************************************************************************)
\* C20 as stated: on every frame whose features are computed, each derived
\* column is NaN at every index before its governing window is full: the
\* MACD line, signal, histogram and drift flag before macd_slow bars, the
\* K slope before kdj_period bars, the long average before ma_long bars.
C20_WarmupUndefined ==
    (ret.op = "generate_signal" /\ ret.frame.n >= MinBars)
        => LET f == Enriched(IndicatorKey(config), ret.frame).f
           IN  /\ \A i \in 1..(config.macd_slow - 1) :
                      /\ f.macd.macd_line[i] = NaN
                      /\ f.macd.macd_signal[i] = NaN
                      /\ f.macd.macd_hist[i] = NaN
                      /\ f.macd.macd_drift[i] = NaN
               /\ \A i \in 1..(config.kdj_period - 1) :
                      f.kdj_k_slope[i] = NaN
               /\ \A i \in 1..(config.ma_long - 1) : f.ma45[i] = NaN

(***************************************************************************)
(* get_trend_status on its own (SpecTrend): the last row of a frame that   *)
(* carries its features, drawn from values around the long average.        *)
(***************************************************************************)
TrendRows == {1, 2}
TrendCloses == {299900, 300000, 300100}
TrendAverages == {NaN, 29990000, 30000000, 30005000, 30010000}
TrendHists == {NaN, 0 - 50, 0, 1, 50}

\* a frame of `rows` rows whose last row has the given close, ma45 and
\* macd_hist
TrendFrame(rows, close, ma45, hist) ==
    IF rows = 1
    THEN [close |-> <<close>>, ma45 |-> <<ma45>>,
          macd |-> [macd_hist |-> <<hist>>]]
    ELSE [close |-> <<close - 100, close>>, ma45 |-> <<ma45, ma45>>,
          macd |-> [macd_hist |-> <<0, hist>>]]

\* get_trend_status(_df) on such a frame
GetTrendStatus(rows, close, ma45, hist) ==
    /\ ret' = [op |-> "get_trend_status", rows |-> rows, close |-> close,
               ma45 |-> ma45, macd_hist |-> hist,
               result |-> TrendOf(TrendFrame(rows, close, ma45, hist), rows)]
    /\ UNCHANGED <<config, strategyVars, executorVars, db, optimizerVars>>

NextTrend ==
    \E rows \in TrendRows, close \in TrendCloses, ma45 \in TrendAverages,
       hist \in TrendHists : GetTrendStatus(rows, close, ma45, hist)

SpecTrend == Init /\ [][NextTrend]_vars

\* C21 as stated: the trend of a timeframe with at least 2 rows is true
\* exactly when its last close is greater than or equal to its last long
\* average and its last macd_hist is greater than 0; a close equal to the
\* average with a positive histogram is a trend.
C21_TrendAtOrAboveAverage ==
    (/\ ret.op = "get_trend_status"
     /\ ret.rows >= 2
     /\ ret.ma45 # NaN
     /\ ret.macd_hist # NaN)
        => (ret.result.value
              <=> (100 * ret.close >= ret.ma45 /\ ret.macd_hist > 0))

(***************************************************************************)
(* Properties of the returned score (SpecOpt).                             *)
(***************************************************************************)
\* C22 as stated: the objective returns exactly -1 whenever its replay
\* produces fewer than 5 trades, and the weighted Sharpe/win-rate score
\* whenever it produces 5 or more.
C22_SentinelIffFewTrades ==
    (ret.op = "objective" /\ ret.kind # "raised")
        => IF Len(ret.trades) < MinTrades
           THEN ret.kind = "sentinel" /\ ret.score = Sentinel
           ELSE ret.kind = "scored" /\ ret.score = Score(ret.trades)

(***************************************************************************)
(* The table strategy_configs when save_strategy_config is called          *)
(* directly, by the objective or by the chart component.                   *)
(***************************************************************************)
\* the dicts a caller saves: the optimizer's parameter sets and the
\* default configuration's fields
ConfigDicts == ParamSets \cup {DefaultConfig}

\* db.save_strategy_config(config_dict).  `last_saved` is the dict of the
\* most recent call that returned an id
SaveStrategyConfig(config_dict) ==
    LET saved == save_strategy_config(db.strategy_configs, config_dict)
    IN  /\ db' = [db EXCEPT !.strategy_configs = saved.rows]
        /\ ret' = [op |-> "save_strategy_config", config_dict |-> config_dict,
                   result |-> IF saved.raised THEN Raise("IntegrityError")
                              ELSE [action |-> "return",
                                    config_id |-> saved.config_id],
                   last_saved |-> IF ~saved.raised THEN config_dict
                                  ELSE IF ret.op = "save_strategy_config"
                                  THEN ret.last_saved
                                  ELSE None]
        /\ UNCHANGED <<config, strategyVars, executorVars, optimizerVars>>

NextConfigs == \E config_dict \in ConfigDicts : SaveStrategyConfig(config_dict)

SpecConfigs == Init /\ [][NextConfigs]_vars

ActiveRows == {i \in 1..Len(db.strategy_configs) :
                  db.strategy_configs[i].is_active}

\* C23: after any sequence of save_strategy_config calls, failed saves of
\* a dict saved before included, exactly one persisted configuration is
\* active, and it is the one saved by the most recent call that succeeded
C23_OneActiveMostRecent ==
    ret.op = "save_strategy_config"
        => /\ Cardinality(ActiveRows) = 1
           /\ \A i \in ActiveRows :
                  db.strategy_configs[i].config = ret.last_saved

\* three configurations are stored, and the last call tried to save again
\* one that is not the most recent and failed
C23_OlderDuplicateRejected ==
    /\ ret.op = "save_strategy_config"
    /\ ret.result.action = "raise"
    /\ Len(db.strategy_configs) = 3
    /\ ret.config_dict # ret.last_saved

(***************************************************************************)
(* The table trades when it is written and read directly: save_trade,      *)
(* save_virtual_trade, get_recent_trades, get_virtual_trades.  A row keeps *)
(* created_at, the second of its INSERT (CURRENT_TIMESTAMP); the rows are  *)
(* in the order of their ids.                                              *)
(***************************************************************************)
\* the seconds at which a save can happen
Clock == {0, 1}

\* the dicts a caller saves.  trade_id 1 stands for 'TEST_001' of the test,
\* 900 for 'VIRT_900'; money in 1e-7 USDT, prices in cents
TradeInputs ==
    {[trade_id |-> 1, side |-> "buy", open_time |-> 0, open_price |-> 300000,
      close_time |-> 15, close_price |-> 301000, pnl |-> 100000000,
      fee |-> 60000, net_pnl |-> 99940000, balance_after |-> 1099940000,
      reason |-> "PAFER Bullish Resonance", is_virtual |-> TRUE],
     [trade_id |-> 900, side |-> "sell", open_time |-> 15,
      open_price |-> 299955, close_time |-> 15, close_price |-> 299955,
      pnl |-> 0 - 1234567, fee |-> 300000, net_pnl |-> 0 - 1534567,
      balance_after |-> 998465000, reason |-> "short"],
     \* the same id saved with other figures
     [trade_id |-> 900, side |-> "buy", open_time |-> 15,
      open_price |-> 300045, close_time |-> 15, close_price |-> 300045,
      pnl |-> 10000500, fee |-> 300000, net_pnl |-> 9700500,
      balance_after |-> 1009700000, reason |-> "long"],
     \* a dict with only the keys a caller cared to give
     [trade_id |-> 2, net_pnl |-> 20001500]}

\* dict.get(key, default)
Get(trade, key, default) ==
    IF key \in DOMAIN trade THEN trade[key] ELSE default

\* save_virtual_trade, lines 121-136: the TradeRecord built from the dict
TradeRecordOf(trade, now) ==
    [trade_id      |-> Get(trade, "trade_id", now),
     side          |-> Get(trade, "side", "buy"),
     open_time     |-> Get(trade, "open_time", now),
     open_price    |-> Get(trade, "open_price", 300000),
     close_time    |-> Get(trade, "close_time", now),
     close_price   |-> Get(trade, "close_price", 300000),
     pnl           |-> Get(trade, "pnl", 0),
     fee           |-> Get(trade, "fee", 0),
     net_pnl       |-> Get(trade, "net_pnl", 0),
     balance_after |-> Get(trade, "balance_after", InitialBalance),
     reason        |-> Get(trade, "reason", "Virtual trade"),
     is_virtual    |-> TRUE]

\* save_trade, lines 88-117: INSERT OR REPLACE removes the row that has
\* the record's trade_id and inserts the record as a new row
save_trade(rows, record, now) ==
    Append(SelectSeq(rows, LAMBDA r : r.record.trade_id # record.trade_id),
           [record |-> record, created_at |-> now])

\* SQLite's ROUND(x, 4): to the nearest multiple, a tie away from zero
SqlRound4(x) ==
    LET q == Abs(x) \div 1000
        n == IF 2 * (Abs(x) % 1000) >= 1000 THEN q + 1 ELSE q
    IN  IF x < 0 THEN 0 - n * 1000 ELSE n * 1000

\* ORDER BY created_at DESC: the orders in which the rows can come back.
\* Rows inserted within the same second compare equal, and SQL leaves
\* their order open
RecentFirst(rows) ==
    {p \in [1..Len(rows) -> 1..Len(rows)] :
        /\ \A i, j \in 1..Len(rows) : i # j => p[i] # p[j]
        /\ \A i, j \in 1..Len(rows) :
               i < j => rows[p[i]].created_at >= rows[p[j]].created_at}

\* get_recent_trades, lines 141-161, the rows coming back in order p
get_recent_trades(rows, limit, p) ==
    [i \in 1..Min2(limit, Len(rows)) |->
        [trade_id    |-> rows[p[i]].record.trade_id,
         side        |-> rows[p[i]].record.side,
         open_time   |-> rows[p[i]].record.open_time,
         open_price  |-> rows[p[i]].record.open_price,
         close_price |-> rows[p[i]].record.close_price,
         net_pnl     |-> SqlRound4(rows[p[i]].record.net_pnl),
         reason      |-> rows[p[i]].record.reason,
         mode        |-> IF rows[p[i]].record.is_virtual THEN "VIRTUAL"
                         ELSE "LIVE"]]

\* get_virtual_trades, lines 163-184
get_virtual_trades(rows, limit, p) ==
    LET virtual == SelectSeq([i \in 1..Len(rows) |-> rows[p[i]].record],
                             LAMBDA r : r.is_virtual)
    IN  [i \in 1..Min2(limit, Len(virtual)) |->
            [trade_id      |-> virtual[i].trade_id,
             side          |-> virtual[i].side,
             open_time     |-> virtual[i].open_time,
             open_price    |-> virtual[i].open_price,
             close_time    |-> virtual[i].close_time,
             close_price   |-> virtual[i].close_price,
             pnl           |-> SqlRound4(virtual[i].pnl),
             fee           |-> SqlRound4(virtual[i].fee),
             net_pnl       |-> SqlRound4(virtual[i].net_pnl),
             balance_after |-> SqlRound4(virtual[i].balance_after),
             reason        |-> virtual[i].reason]]

\* the record of the save just before this call, None after anything else
JustSaved == IF ret.op = "save_virtual_trade" THEN ret.record ELSE None

\* db.save_virtual_trade(trade) at second `now`
SaveVirtualTrade(trade, now) ==
    /\ \A i \in 1..Len(db.trades) : db.trades[i].created_at <= now
    /\ db' = [db EXCEPT !.trades =
                  save_trade(db.trades, TradeRecordOf(trade, now), now)]
    /\ ret' = [op |-> "save_virtual_trade", trade |-> trade, now |-> now,
               record |-> TradeRecordOf(trade, now)]
    /\ UNCHANGED <<config, strategyVars, executorVars, optimizerVars>>

\* db.get_recent_trades(limit)
GetRecentTrades(limit) ==
    /\ \E p \in RecentFirst(db.trades) :
           ret' = [op |-> "get_recent_trades", limit |-> limit,
                   saved |-> JustSaved,
                   result |-> get_recent_trades(db.trades, limit, p)]
    /\ UNCHANGED <<config, strategyVars, executorVars, db, optimizerVars>>

\* db.get_virtual_trades(), limit left at its default
GetVirtualTrades ==
    /\ \E p \in RecentFirst(db.trades) :
           ret' = [op |-> "get_virtual_trades", limit |-> 100,
                   saved |-> JustSaved,
                   result |-> get_virtual_trades(db.trades, 100, p)]
    /\ UNCHANGED <<config, strategyVars, executorVars, db, optimizerVars>>

NextTrades ==
    \/ \E trade \in TradeInputs, now \in Clock : SaveVirtualTrade(trade, now)
    \/ \E limit \in {1, 10} : GetRecentTrades(limit)
    \/ GetVirtualTrades

SpecTrades == Init /\ [][NextTrades]_vars

\* x and y agree to 4 decimal places
Within4(x, y) == 2 * Abs(x - y) <= 1000

\* C24 as stated: reloading the trades right after save_virtual_trade(r)
\* returns a record with r's trade_id and side and r's numeric fields to
\* 4 decimals, and get_recent_trades(limit=1) right after the save returns
\* exactly one record, which is r, whatever was saved before
C24_SavedTradeReadBack ==
    /\ (ret.op = "get_virtual_trades" /\ ret.saved # None)
           => \E i \in 1..Len(ret.result) :
                 /\ ret.result[i].trade_id = ret.saved.trade_id
                 /\ ret.result[i].side = ret.saved.side
                 /\ ret.result[i].open_price = ret.saved.open_price
                 /\ ret.result[i].close_price = ret.saved.close_price
                 /\ Within4(ret.result[i].pnl, ret.saved.pnl)
                 /\ Within4(ret.result[i].fee, ret.saved.fee)
                 /\ Within4(ret.result[i].net_pnl, ret.saved.net_pnl)
                 /\ Within4(ret.result[i].balance_after,
                            ret.saved.balance_after)
    /\ (ret.op = "get_recent_trades" /\ ret.limit = 1 /\ ret.saved # None)
           => /\ Len(ret.result) = 1
              /\ ret.result[1].trade_id = ret.saved.trade_id
              /\ ret.result[1].side = ret.saved.side
              /\ Within4(ret.result[1].net_pnl, ret.saved.net_pnl)

(***************************************************************************)
(* utils/optimization.py: the parameter sets the two search phases hand to *)
(* the objective.  Values in tenths.  What an evaluation then does is the  *)
(* Objective step of SpecOpt.                                              *)
(***************************************************************************)
\* pbounds, lines 97-109, and the attribute generators, lines 135-145
SearchSpace ==
    [macd_fast |-> <<20, 50>>, macd_slow |-> <<150, 250>>,
     macd_signal |-> <<50, 90>>, kdj_period |-> <<70, 120>>,
     kdj_smooth_k |-> <<20, 50>>, kdj_smooth_d |-> <<20, 50>>,
     ma_short |-> <<30, 80>>, ma_mid |-> <<80, 150>>,
     ma_long |-> <<300, 600>>, momentum_threshold_pct |-> <<50, 250>>,
     max_klines_for_resonance |-> <<20, 60>>]

ParamNames == DOMAIN SearchSpace

InBounds(ind) ==
    \A k \in ParamNames : SearchSpace[k][1] <= ind[k] /\ ind[k] <= SearchSpace[k][2]

\* individuals the attribute generators can draw: every gene at its
\* lowest value, at its highest, and the default configuration's values
LowIndividual == [k \in ParamNames |-> SearchSpace[k][1]]
HighIndividual == [k \in ParamNames |-> SearchSpace[k][2]]
MidIndividual ==
    [macd_fast |-> 30, macd_slow |-> 180, macd_signal |-> 60,
     kdj_period |-> 90, kdj_smooth_k |-> 30, kdj_smooth_d |-> 30,
     ma_short |-> 50, ma_mid |-> 100, ma_long |-> 450,
     momentum_threshold_pct |-> 150, max_klines_for_resonance |-> 40]
DrawnIndividuals == {LowIndividual, MidIndividual, HighIndividual}

\* toolbox.population: a list of drawn individuals (two of them here)
Populations == [1..2 -> DrawnIndividuals]

\* deap's cxBlend(ind1, ind2, alpha = 0.5), line 159: gamma is
\* (1 + 2 alpha) * random() - alpha, between -0.5 and 1.5; the children
\* are (1 - gamma) x1 + gamma x2 and gamma x1 + (1 - gamma) x2, here to
\* the nearest tenth
Gammas == {0 - 5, 5, 14}
Blend(x1, x2, gamma) == RoundTo((10 - gamma) * x1 + gamma * x2, 10) \div 10
cxBlend(ind1, ind2, gamma) ==
    <<[k \in ParamNames |-> Blend(ind1[k], ind2[k], gamma)],
      [k \in ParamNames |-> Blend(ind2[k], ind1[k], gamma)]>>

\* deap's mutGaussian(ind, mu = 0, sigma = 1, indpb = 0.2), line 160: each
\* gene is, with probability 0.2, moved by a normal draw.  The draws: no
\* gene moved, macd_fast moved by -1.3, ma_long moved by +0.8
Noises ==
    {[k \in ParamNames |-> 0],
     [k \in ParamNames |-> IF k = "macd_fast" THEN 0 - 13 ELSE 0],
     [k \in ParamNames |-> IF k = "ma_long" THEN 8 ELSE 0]}
mutGaussian(ind, noise) == [k \in ParamNames |-> ind[k] + noise[k]]

\* the numbers of generations run() asks for, scaled down from 10 and 20
Generations == {1, 2}

\* run_genetic_opt up to the evaluation of the initial population
\* (eaSimple evaluates every individual that has no fitness yet)
GeneticPopulation(n_gen, pop) ==
    /\ ret' = [op |-> "run_genetic_opt", n_gen |-> n_gen, gen |-> 0,
               pop |-> pop, evaluated |-> pop]
    /\ UNCHANGED <<config, strategyVars, executorVars, db, optimizerVars>>

\* one generation of eaSimple, line 171: selection clones individuals of
\* the population, varAnd mates the pair (mate) and mutates each clone
\* (mutated[i]), and the clones that were touched are evaluated
GeneticGeneration(chosen, mate, gamma, mutated, noise) ==
    LET clones == [i \in 1..2 |-> ret.pop[chosen[i]]]
        mated  == IF mate THEN cxBlend(clones[1], clones[2], gamma)
                  ELSE clones
        offspring == [i \in 1..2 |-> IF mutated[i]
                                     THEN mutGaussian(mated[i], noise[i])
                                     ELSE mated[i]]
        invalid == {i \in 1..2 : mate \/ mutated[i]}
    IN  /\ ret.op = "run_genetic_opt"
        /\ ret.gen < ret.n_gen
        /\ ret' = [op |-> "run_genetic_opt", n_gen |-> ret.n_gen,
                   gen |-> ret.gen + 1, pop |-> offspring,
                   evaluated |-> [j \in 1..Cardinality(invalid) |->
                                     offspring[IF j = 1 /\ 1 \in invalid
                                               THEN 1 ELSE 2]]]
        /\ UNCHANGED <<config, strategyVars, executorVars, db, optimizerVars>>

\* run_bayesian_opt, lines 111-117: the library probes points of pbounds
BayesianProbe(point) ==
    /\ ret' = [op |-> "run_bayesian_opt", evaluated |-> <<point>>]
    /\ UNCHANGED <<config, strategyVars, executorVars, db, optimizerVars>>

NextSearch ==
    \/ \E n_gen \in Generations, pop \in Populations :
           GeneticPopulation(n_gen, pop)
    \/ \E chosen \in [1..2 -> 1..2], mate \in BOOLEAN, gamma \in Gammas,
          mutated \in [1..2 -> BOOLEAN], noise \in [1..2 -> Noises] :
           GeneticGeneration(chosen, mate, gamma, mutated, noise)
    \/ \E point \in DrawnIndividuals : BayesianProbe(point)

SpecSearch == Init /\ [][NextSearch]_vars

\* C25 as stated: every parameter set the surrogate phase and every
\* generation of the evolutionary phase (initial population, blend
\* crossover, Gaussian mutation) passes to the objective lies within the
\* search-space bounds of each of the 11 parameters
C25_EvaluatedWithinBounds ==
    ret.op \in {"run_bayesian_opt", "run_genetic_opt"}
        => \A i \in 1..Len(ret.evaluated) : InBounds(ret.evaluated[i])

\* bar i of the enriched frame f widens the distance between the MACD line
\* and the signal line without a crossover: the distance keeps its sign
\* and grows
WidensWithoutCross(f, i) ==
    /\ i >= 2
    /\ f.macd.macd_hist[i] # NaN /\ f.macd.macd_hist[i - 1] # NaN
    /\ \/ (f.macd.macd_hist[i - 1] > 0
            /\ f.macd.macd_hist[i] > f.macd.macd_hist[i - 1])
       \/ (f.macd.macd_hist[i - 1] < 0
            /\ f.macd.macd_hist[i] < f.macd.macd_hist[i - 1])

\* C26 as stated: the drift flag is set on a bar that widens the
\* MACD-line/signal-line distance without a crossover, so an intent
\* emitted for a frame with such a bar among its trailing 5 bars has
\* drift_accumulation > 0 and a leverage above 20
C26_DriftRaisesLeverage ==
    (/\ ret.op = "generate_signal"
     /\ ret.result.action \in {"buy", "sell"}
     /\ \E i \in (ret.frame.n - 4)..ret.frame.n :
            WidensWithoutCross(Enriched(IndicatorKey(config), ret.frame).f, i))
        => /\ check_drift_accumulation(
                  Enriched(IndicatorKey(config), ret.frame).f, ret.frame.n) > 0
           /\ ret.result.leverage > 20

(***************************************************************************)
(* Two callers inside generate_signal of one PAFERStrategy at once.  A     *)
(* call reads self.last_signal_time on line 87 and writes it on line 106   *)
(* or 123; the enrichment and the gates between the two lines touch only   *)
(* the call's own frame, so a call is three steps and the steps of the     *)
(* two calls interleave freely.  Each caller makes one call.               *)
(***************************************************************************)
Callers == {1, 2}

IdleCall == [pc |-> "idle"]

\* where each caller is: idle, before line 86 with its frame, before line
\* 90 with the last_signal_time it read, or returned with its result
Calls == IF ret.op = "calls" THEN ret.calls ELSE [c \in Callers |-> IdleCall]

\* lines 80-84: the length check and the enrichment
EnterGenerateSignal(c, fr) ==
    /\ Calls[c].pc = "idle"
    /\ ret' = [op |-> "calls",
               calls |-> [Calls EXCEPT ![c] =
                   IF fr.n < MinBars
                   THEN [pc |-> "returned", frame |-> fr, read |-> None,
                         result |-> NoSignal]
                   ELSE [pc |-> "line86", frame |-> fr]]]
    /\ UNCHANGED <<config, strategyVars, executorVars, db, optimizerVars>>

\* lines 86-88: the cooldown test on the last_signal_time of this moment
CheckCooldown(c) ==
    /\ Calls[c].pc = "line86"
    /\ ret' = [op |-> "calls",
               calls |-> [Calls EXCEPT ![c] =
                   IF InCooldown(last_signal_time, LastBarTime(Calls[c].frame))
                   THEN [pc |-> "returned", frame |-> Calls[c].frame,
                         read |-> last_signal_time, result |-> NoSignal]
                   ELSE [pc |-> "line90", frame |-> Calls[c].frame,
                         read |-> last_signal_time]]]
    /\ UNCHANGED <<config, strategyVars, executorVars, db, optimizerVars>>

\* lines 90-133: the gates, the write of last_signal_time, the return
DecideAndReturn(c) ==
    LET fr  == Calls[c].frame
        sig == Decide(Enriched(IndicatorKey(config), fr), fr.n, config)
    IN  /\ Calls[c].pc = "line90"
        /\ last_signal_time' = SignalTimeAfter(last_signal_time, fr, sig)
        /\ emitted' = IF sig.action \in {"buy", "sell"}
                      THEN Append(emitted, LastBarTime(fr)) ELSE emitted
        /\ ret' = [op |-> "calls",
                   calls |-> [Calls EXCEPT ![c] =
                       [pc |-> "returned", frame |-> fr,
                        read |-> Calls[c].read, result |-> sig]]]
        /\ UNCHANGED <<config, executorVars, db, optimizerVars>>

NextCalls ==
    \/ \E c \in Callers, fr \in EngineFrames : EnterGenerateSignal(c, fr)
    \/ \E c \in Callers : CheckCooldown(c)
    \/ \E c \in Callers : DecideAndReturn(c)

SpecCalls == Init /\ [][NextCalls]_vars

\* both calls have returned buy or sell for frames whose last-bar times
\* are less than 15 minutes apart
BothEmittedNearby ==
    /\ ret.op = "calls"
    /\ \A c \in Callers :
           /\ ret.calls[c].pc = "returned"
           /\ ret.calls[c].result.action \in {"buy", "sell"}
    /\ Abs(LastBarTime(ret.calls[1].frame) - LastBarTime(ret.calls[2].frame))
           < SignalCooldown

\* C27: two generate_signal calls on one engine return non-hold intents
\* for frames less than 15 minutes apart only in an interleaving in which
\* both read last_signal_time before either wrote it (each read the unset
\* value of the fresh engine); such an interleaving exists
C27_NearbyOnlyWhenBothReadFirst ==
    BothEmittedNearby => \A c \in Callers : ret.calls[c].read = << >>

\* the two calls overlapped and both emitted, 5 minutes apart
C27_OverlappedCallsBothEmit ==
    /\ BothEmittedNearby
    /\ LastBarTime(ret.calls[1].frame) # LastBarTime(ret.calls[2].frame)
    /\ \A c \in Callers : ret.calls[c].read = << >>

\* C28: last_signal_time is unset or the last-bar time of the most recent
\* call that returned buy or sell (since construction or reset); a call
\* that returns hold or no-signal leaves it unchanged and a call that
\* returns buy or sell sets it to its frame's last-bar time
C28_SignalTimeIsLastEmission ==
    /\ last_signal_time = IF emitted = << >> THEN << >>
                          ELSE <<emitted[Len(emitted)]>>
    /\ ret.op = "generate_signal"
           => last_signal_time =
                  IF ret.result.action \in {"buy", "sell"}
                  THEN <<LastBarTime(ret.frame)>>
                  ELSE ret.last_before

\* a call on a frame of another time returned hold after an emission, and
\* last_signal_time is still the emission's time
C28_HoldKeepsSignalTime ==
    /\ ret.op = "generate_signal"
    /\ ret.result = Hold
    /\ last_signal_time # << >>
    /\ last_signal_time[1] # LastBarTime(ret.frame)

\* C29 as stated: every successful fill is persisted as its own record: a
\* fill that returns a trade adds one row to the persisted virtual trades
\* and leaves every earlier row in place, also when an earlier fill had
\* the same bar timestamp and therefore the same trade id
C29_EveryFillPersistedApart ==
    [][(executions' = executions + 1 /\ FillRecorded')
           => /\ Len(db'.trades) = Len(db.trades) + 1
              /\ \A i \in 1..Len(db.trades) : db'.trades[i] = db.trades[i]]_vars

\* C30: the cooldown comparison is strict.  A frame whose last-bar time is
\* exactly 15 minutes after last_signal_time is not suppressed (the call
\* returns what it returns on an engine that has emitted nothing), so two
\* consecutive bars of a 15-minute series can both emit; a frame whose
\* last-bar time is earlier than last_signal_time is suppressed
C30_CooldownStrict ==
    (ret.op = "generate_signal" /\ ret.frame.n >= MinBars
     /\ ret.last_before # << >>)
        => /\ LastBarTime(ret.frame) - ret.last_before[1] = SignalCooldown
                  => ret.result = generate_signal(<< >>, config, ret.frame)
           /\ LastBarTime(ret.frame) < ret.last_before[1]
                  => ret.result = NoSignal

\* the frame of the bar before emits on an engine that has emitted
\* nothing, last_signal_time was that bar's time, and this call emitted
C30_ConsecutiveBarsEmit ==
    /\ ret.op = "generate_signal"
    /\ ret.frame.n > MinBars
    /\ ret.result.action \in {"buy", "sell"}
    /\ ret.last_before = <<LastBarTime(ret.frame) - BarMinutes>>
    /\ [ret.frame EXCEPT !.n = @ - 1] \in EngineFrames
    /\ generate_signal(<< >>, config,
                       [ret.frame EXCEPT !.n = @ - 1]).action
           \in {"buy", "sell"}

====
